---- MODULE Spec2Model ----
(***************************************************************************)
(* A model of the kelvin hash array mapped trie                            *)
(* (structures/hamt/src/lib.rs) together with the parts of the compound    *)
(* tree framework it rests on (src/search.rs, src/map.rs,                  *)
(* src/compound.rs).  Handles, the blob store, the branch walker and the   *)
(* annotations are not part of the sources at hand; they are modelled from *)
(* the written specification and marked so where they are defined.         *)
(***************************************************************************)
EXTENDS Integers, Sequences, FiniteSets

(***************************************************************************)
(* Bounds of the model.                                                    *)
(***************************************************************************)
\* the largest number of pairs held by a map at any time
MaxKeys == 3
\* values are 1..NumVals
NumVals == 2
\* recursion depth at which the call stack of the process is exhausted
StackLimit == 17
\* the largest depth calculate_slot is applied to on its own
MaxDepth == 33
\* the longest slice of handles First::select is applied to on its own
MaxSlice == 4

(***************************************************************************)
(* Program constants.                                                      *)
(***************************************************************************)
N_BUCKETS == 16

Slots == 0 .. (N_BUCKETS - 1)
Vals == 1 .. NumVals

(***************************************************************************)
(* 64 bit words are kept as four 16 bit limbs, least significant first.    *)
(***************************************************************************)
LimbBase == 2 ^ 16

Pow2(n) == 2 ^ n

Limb(h, j) == IF j \in 1 .. 4 THEN h[j] ELSE 0

\* h >> n on a u64, 0 <= n < 64
Shr(h, n) ==
    LET q == n \div 16
        r == n % 16
    IN  [i \in 1 .. 4 |->
            ((Limb(h, i + q) \div Pow2(r))
               + (Limb(h, i + q + 1) % Pow2(r)) * Pow2(16 - r)) % LimbBase]

\* (h & m) as usize, for a mask m below 2^16
AndLow(h, m) == h[1] % (m + 1)

(***************************************************************************)
(* The keys of the model and their 64 bit key hashes.  Key 2 leaves key 1  *)
(* in the first nibble, key 3 in the second, key 4 in the third, and key 5 *)
(* has the very hash of key 1.                                             *)
(***************************************************************************)
KeyHashTable ==
    << <<19239, 37347, 23816, 50929>>,
       <<19240, 37347, 23816, 50929>>,
       <<19271, 37347, 23816, 50929>>,
       <<19495, 37347, 23816, 50929>>,
       <<19239, 37347, 23816, 50929>> >>

Keys == DOMAIN KeyHashTable

\* hash(&k): the hasher's digest of a key
hash(k) == KeyHashTable[k]

\* hash(h) of a u64: the hasher's digest of a word, a fixed scrambling
hashWord(h) ==
    << (h[4] + 7) % LimbBase, (h[1] + h[3]) % LimbBase,
       (h[2] + 1) % LimbBase, (h[3] + h[4] + 3) % LimbBase >>

RECURSIVE calculate_slot_loop(_, _)

\* faulty variant: the hash is renewed only past depth 16
calculate_slot_loop_late(h, depth) ==
    IF depth > 16
    THEN calculate_slot_loop(hashWord(h), depth - 16)
    ELSE [h |-> h, depth |-> depth]

\* while depth >= 16 { h = hash(h); depth -= 16; }: h and depth after it
calculate_slot_loop(h, depth) ==
    IF depth >= 16
    THEN calculate_slot_loop(hashWord(h), depth - 16)
    ELSE [h |-> h, depth |-> depth]

\* the number of bits h is shifted by after the loop
calculate_slot_shift(l) == l.depth * 4

\* (shifted & 0x0f) as usize
calculate_slot_masked(l) == AndLow(Shr(l.h, calculate_slot_shift(l)), 15)

calculate_slot(h, depth) == calculate_slot_masked(calculate_slot_loop(h, depth))

(***************************************************************************)
(* Handles and nodes.                                                      *)
(***************************************************************************)
NoneH == [type |-> "None"]
LeafH(k, v) == [type |-> "Leaf", key |-> k, val |-> v]
NodeH(n) == [type |-> "Node", node |-> n]
SharedH(d, a) == [type |-> "Shared", digest |-> d, ann |-> a]

\* HAMT::new(): sixteen empty handles
new == [s \in Slots |-> NoneH]

NoneOpt == [tag |-> "None"]
Some(v) == [tag |-> "Some", val |-> v]

(***************************************************************************)
(* Annotations (Cardinality).  Compound::annotation combines over the      *)
(* children; the combination itself and the annotation of a handle follow  *)
(* the written specification: a leaf counts one, a node is the combination *)
(* of its children, a shared handle gives the annotation cached with its   *)
(* digest, an empty handle gives none, and nothing combines to None.       *)
(***************************************************************************)
RECURSIVE annotation(_)

\* Handle::annotation
handle_annotation(h) ==
    CASE h.type = "None" -> NoneOpt
      [] h.type = "Leaf" -> Some(1)
      [] h.type = "Node" -> annotation(h.node)
      [] h.type = "Shared" -> h.ann

\* Cardinality: the sum of two optional counts
combine_two(acc, a) ==
    IF a.tag = "None" THEN acc
    ELSE IF acc.tag = "None" THEN a
    ELSE Some(acc.val + a.val)

RECURSIVE combine_from(_, _, _)
combine_from(children, i, acc) ==
    IF i = N_BUCKETS
    THEN acc
    ELSE combine_from(children, i + 1,
                      combine_two(acc, handle_annotation(children[i])))

\* Combine::combine over the handles of a node
combine(children) == combine_from(children, 0, NoneOpt)

\* faulty variant: the lower half of the children is left out of the combination
annotation_upper(node) == combine_from(node, N_BUCKETS \div 2, NoneOpt)

\* Compound::annotation
annotation(node) == combine(node)

(***************************************************************************)
(* Persistence.  A sink is a sequence of typed items: the u16 mask, a u8   *)
(* tag, a key, a value, a digest, an annotation.  The digest of a blob     *)
(* stands for the blob it addresses; the store gives the blob back.        *)
(***************************************************************************)
Digest(bytes) == [blake2b |-> bytes]
Fetch(d) == d.blake2b

\* mask & (1 << i) != 0
MaskBit(mask, i) == (mask \div Pow2(i)) % 2 = 1

\* Handle::handle_type(): does not fault in
handle_type(h) == h.type

RECURSIVE persist_mask(_, _, _)

\* faulty variant: a shared handle is taken for an absent one
persist_mask_unshared(node, i, mask) ==
    IF i = N_BUCKETS
    THEN mask
    ELSE persist_mask(node, i + 1,
             IF handle_type(node[i]) \in {"None", "Shared"} THEN mask
             ELSE mask + Pow2(i))

\* the first loop of persist: mask |= 1 << i for every slot that is not None
persist_mask(node, i, mask) ==
    IF i = N_BUCKETS
    THEN mask
    ELSE persist_mask(node, i + 1,
             IF handle_type(node[i]) = "None" THEN mask
             ELSE mask + Pow2(i))

RECURSIVE persist(_)

\* a node handle once its node is written: the digest and the annotation
persist_shared(p) ==
    [bytes |-> << [u8 |-> 2], [digest |-> Digest(p.bytes)],
                  [ann |-> annotation(p.node)] >>,
     handle |-> SharedH(Digest(p.bytes), annotation(p.node))]

\* Handle::persist: a leaf inline, a node by the digest of its own blob
handle_persist(h) ==
    CASE h.type = "None" ->
           [bytes |-> << [u8 |-> 0] >>, handle |-> h]
      [] h.type = "Leaf" ->
           [bytes |-> << [u8 |-> 1], [key |-> h.key], [val |-> h.val] >>,
            handle |-> h]
      [] h.type = "Node" -> persist_shared(persist(h.node))
      [] h.type = "Shared" ->
           [bytes |-> << [u8 |-> 2], [digest |-> h.digest], [ann |-> h.ann] >>,
            handle |-> h]

RECURSIVE persist_handles(_, _, _, _)

\* one step of the second loop of persist, p the handle as persisted
persist_handle_done(node, mask, i, bytes, p) ==
    persist_handles([node EXCEPT ![i] = p.handle], mask, i + 1,
                    bytes \o p.bytes)

\* the second loop of persist: the present handles in slot order
persist_handles(node, mask, i, bytes) ==
    IF i = N_BUCKETS
    THEN [bytes |-> bytes, node |-> node]
    ELSE IF MaskBit(mask, i)
    THEN persist_handle_done(node, mask, i, bytes, handle_persist(node[i]))
    ELSE persist_handles(node, mask, i + 1, bytes)

\* the mask is written first
persist_masked(node, mask) ==
    persist_handles(node, mask, 0, << [u16 |-> mask] >>)

\* Content::persist for HAMT
persist(node) == persist_masked(node, persist_mask(node, 0, 0))

\* Handle::restore: one handle read at position pos of the source
handle_restore(bytes, pos) ==
    LET tag == bytes[pos].u8
    IN  CASE tag = 0 -> [handle |-> NoneH, pos |-> pos + 1]
          [] tag = 1 ->
               [handle |-> LeafH(bytes[pos + 1].key, bytes[pos + 2].val),
                pos |-> pos + 3]
          [] tag = 2 ->
               [handle |-> SharedH(bytes[pos + 1].digest, bytes[pos + 2].ann),
                pos |-> pos + 3]

RECURSIVE restore_bucket(_, _, _, _, _)

\* faulty variant: the handles restored fill the bucket from its far end
restore_handle_done_reversed(bytes, mask, i, bucket, r) ==
    restore_bucket(bytes, mask, i + 1, r.pos,
                   [bucket EXCEPT ![N_BUCKETS - 1 - i] = r.handle])

\* *handle = Handle::restore(source)?
restore_handle_done(bytes, mask, i, bucket, r) ==
    restore_bucket(bytes, mask, i + 1, r.pos, [bucket EXCEPT ![i] = r.handle])

\* the loop of restore over the sixteen slots
restore_bucket(bytes, mask, i, pos, bucket) ==
    IF i = N_BUCKETS
    THEN bucket
    ELSE IF MaskBit(mask, i)
    THEN restore_handle_done(bytes, mask, i, bucket,
                             handle_restore(bytes, pos))
    ELSE restore_bucket(bytes, mask, i + 1, pos, bucket)

\* Content::restore for HAMT
restore(bytes) == restore_bucket(bytes, bytes[1].u16, 0, 2, new)

\* the source of the store fails every read while down is TRUE
VARIABLE down

\* what inner gives in place of a view when the source failed
IoErrorH == [type |-> "IoError"]
IoErrorOpt == [tag |-> "IoError"]

\* the node a shared handle names, as the store holds it
stored(h) ==
    IF h.type = "Shared" THEN NodeH(restore(Fetch(h.digest))) ELSE h

\* a panic in place of a value
PanicOpt == [tag |-> "Panic"]

\* Handle::into_leaf: the leaf of a leaf handle, a panic for any other
into_leaf(h) ==
    IF h.type = "Leaf"
    THEN Some([key |-> h.key, val |-> h.val])
    ELSE PanicOpt

\* Handle::inner / inner_mut: a shared handle is materialised from the store,
\* or the read fails
inner(h) ==
    IF h.type = "Shared" /\ down THEN IoErrorH ELSE stored(h)

(***************************************************************************)
(* Insert.  A result carries the node as the call leaves it, the returned  *)
(* Option and a status: "Ok", "IoError" when a fault-in failed, or         *)
(* "StackOverflow" when the recursion went deeper than the stack of the    *)
(* process allows.                                                         *)
(***************************************************************************)
Result(node, r, status) == [node |-> node, ret |-> r, status |-> status]

RECURSIVE sub_insert(_, _, _, _, _)

\* Action::Split, its end: self.0[s] = Handle::new_node(new_node)
split_done(node, s, r2) ==
    IF r2.status # "Ok"
    THEN Result([node EXCEPT ![s] = NoneH], NoneOpt, r2.status)
    ELSE Result([node EXCEPT ![s] = NodeH(r2.node)], NoneOpt, "Ok")

\* faulty variant: the displaced pair is not inserted into the new node
split_displaced_lost(node, depth, s, old, r1) ==
    IF r1.status # "Ok"
    THEN Result([node EXCEPT ![s] = NoneH], NoneOpt, r1.status)
    ELSE split_done(node, s, r1)

\* Action::Split, the second insert: the displaced pair under its own hash
split_displaced(node, depth, s, old, r1) ==
    IF r1.status # "Ok"
    THEN Result([node EXCEPT ![s] = NoneH], NoneOpt, r1.status)
    ELSE split_done(node, s,
             sub_insert(r1.node, depth + 1, hash(old.key), old.key, old.val))

\* faulty variant: the slot is emptied when the insert below it failed
insert_below_dropped(node, s, r) ==
    IF r.status = "IoError"
    THEN Result([node EXCEPT ![s] = NoneH], r.ret, r.status)
    ELSE Result([node EXCEPT ![s] = NodeH(r.node)], r.ret, r.status)

\* HandleMut::Node(node) => return node.sub_insert(depth + 1, h, k, v)
insert_below(node, s, r) ==
    Result([node EXCEPT ![s] = NodeH(r.node)], r.ret, r.status)

\* faulty variant: Replace hands the old value back and leaves the old leaf in place
insert_action_keep(node, depth, h, k, v, s, child) ==
    CASE child.type = "None" ->
           Result([node EXCEPT ![s] = LeafH(k, v)], NoneOpt, "Ok")
      [] child.type = "Leaf" /\ child.key = k ->
           Result(node, Some(child.val), "Ok")
      [] child.type = "Leaf" /\ child.key # k ->
           split_displaced(node, depth, s, child,
                           sub_insert(new, depth + 1, h, k, v))
      [] child.type = "Node" ->
           insert_below(node, s, sub_insert(child.node, depth + 1, h, k, v))

\* faulty variant: Split puts the new pair into the new node at the old depth
insert_action_shallow(node, depth, h, k, v, s, child) ==
    CASE child.type = "None" ->
           Result([node EXCEPT ![s] = LeafH(k, v)], NoneOpt, "Ok")
      [] child.type = "Leaf" /\ child.key = k ->
           Result([node EXCEPT ![s] = LeafH(k, v)], Some(child.val), "Ok")
      [] child.type = "Leaf" /\ child.key # k ->
           split_displaced(node, depth, s, child,
                           sub_insert(new, depth, h, k, v))
      [] child.type = "Node" ->
           insert_below(node, s, sub_insert(child.node, depth + 1, h, k, v))

\* faulty variant: a slot whose handle could not be read takes the new leaf
insert_action_overwrite(node, depth, h, k, v, s, child) ==
    CASE child.type = "None" ->
           Result([node EXCEPT ![s] = LeafH(k, v)], NoneOpt, "Ok")
      [] child.type = "Leaf" /\ child.key = k ->
           Result([node EXCEPT ![s] = LeafH(k, v)], Some(child.val), "Ok")
      [] child.type = "Leaf" /\ child.key # k ->
           split_displaced(node, depth, s, child,
                           sub_insert(new, depth + 1, h, k, v))
      [] child.type = "Node" ->
           insert_below(node, s, sub_insert(child.node, depth + 1, h, k, v))
      [] child.type = "IoError" ->
           Result([node EXCEPT ![s] = LeafH(k, v)], NoneOpt, "IoError")

\* Action::Replace: mem::replace(&mut self.0[s], new_leaf).into_leaf()
replace_leaf(node, s, k, v, l) ==
    IF l.tag = "Some"
    THEN Result([node EXCEPT ![s] = LeafH(k, v)], Some(l.val.val), "Ok")
    ELSE Result([node EXCEPT ![s] = LeafH(k, v)], NoneOpt, "Panic")

\* Action::Split: mem::replace(&mut self.0[s], new_empty).into_leaf(), then
\* a new node takes both pairs
split_leaf(node, depth, h, k, v, s, l) ==
    IF l.tag = "Some"
    THEN split_displaced(node, depth, s, l.val,
                         sub_insert(new, depth + 1, h, k, v))
    ELSE Result([node EXCEPT ![s] = NoneH], NoneOpt, "Panic")

\* the match on self.0[s].inner_mut()? and the action taken
insert_action(node, depth, h, k, v, s, child) ==
    CASE child.type = "None" ->
           \* Action::Insert
           Result([node EXCEPT ![s] = LeafH(k, v)], NoneOpt, "Ok")
      [] child.type = "Leaf" /\ child.key = k ->
           replace_leaf(node, s, k, v, into_leaf(node[s]))
      [] child.type = "Leaf" /\ child.key # k ->
           split_leaf(node, depth, h, k, v, s, into_leaf(node[s]))
      [] child.type = "Node" ->
           insert_below(node, s, sub_insert(child.node, depth + 1, h, k, v))
      [] child.type = "IoError" ->
           \* inner_mut()? returned the error
           Result(node, NoneOpt, "IoError")

\* HAMT::sub_insert
sub_insert(node, depth, h, k, v) ==
    IF depth > StackLimit
    THEN Result(node, NoneOpt, "StackOverflow")
    ELSE insert_action(node, depth, h, k, v, calculate_slot(h, depth),
                       inner(node[calculate_slot(h, depth)]))

\* HAMT::insert
insert(node, k, v) == sub_insert(node, 0, hash(k), k, v)

(***************************************************************************)
(* Remove.                                                                 *)
(***************************************************************************)
RemovedNone == [tag |-> "None"]
RemovedLeaf(l) == [tag |-> "Leaf", leaf |-> l]
RemovedCollapse(l, r) == [tag |-> "Collapse", leaf |-> l, reinsert |-> r]
\* Err(e) in place of a Removed
RemovedErr == [tag |-> "IoError"]
\* the call did not return: into_leaf of no leaf, or unreachable!()
RemovedPanic == [tag |-> "Panic"]
RemovedUnreachable == [tag |-> "Unreachable"]

Removal(node, removed) == [node |-> node, removed |-> removed]

KV(h) == [key |-> h.key, val |-> h.val]

RECURSIVE remove_singleton_from(_, _, _)

\* the match on (child.inner()?, singleton), the child left faulted in
singleton_match(node, i, singleton, child) ==
    CASE child.type = "None" ->
           remove_singleton_from([node EXCEPT ![i] = child], i + 1, singleton)
      [] child.type = "Leaf" /\ singleton = -1 ->
           remove_singleton_from([node EXCEPT ![i] = child], i + 1, i)
      [] child.type = "Leaf" /\ singleton # -1 ->
           [node |-> [node EXCEPT ![i] = child], kv |-> NoneOpt]
      [] child.type = "Node" ->
           [node |-> [node EXCEPT ![i] = child], kv |-> NoneOpt]
      [] child.type = "IoError" ->
           [node |-> node, kv |-> IoErrorOpt]

\* the scan of remove_singleton from slot i on; singleton is -1 for None
remove_singleton_from(node, i, singleton) ==
    IF i = N_BUCKETS
    THEN IF singleton # -1
         THEN \* mem::take(&mut self.0[idx]).into_leaf()
              [node |-> [node EXCEPT ![singleton] = NoneH],
               kv |-> into_leaf(node[singleton])]
         ELSE [node |-> node, kv |-> NoneOpt]
    ELSE singleton_match(node, i, singleton, inner(node[i]))

\* HAMT::remove_singleton
remove_singleton(node) == remove_singleton_from(node, 0, -1)

\* faulty variant: the removed leaf and the leaf to put back change places
collapse_result_swapped(removed_leaf, rs) ==
    IF rs.kv.tag = "Some"
    THEN Removal(rs.node, RemovedCollapse(rs.kv.val, removed_leaf))
    ELSE Removal(rs.node, RemovedLeaf(removed_leaf))

\* match self.remove_singleton()?
collapse_result(removed_leaf, rs) ==
    CASE rs.kv.tag = "Some" ->
           Removal(rs.node, RemovedCollapse(removed_leaf, rs.kv.val))
      [] rs.kv.tag = "None" -> Removal(rs.node, RemovedLeaf(removed_leaf))
      [] rs.kv.tag = "IoError" -> Removal(rs.node, RemovedErr)
      [] rs.kv.tag = "Panic" -> Removal(rs.node, RemovedPanic)

\* faulty variant: the branch is never collapsed
collapse_branch_never(node, depth, removed_leaf) ==
    Removal(node, RemovedLeaf(removed_leaf))

\* faulty variant: the root is looked at for a singleton like any node
collapse_branch_rooted(node, depth, removed_leaf) ==
    collapse_result(removed_leaf, remove_singleton(node))

\* the tail of sub_remove: "we might have to collapse the branch"
collapse_branch(node, depth, removed_leaf) ==
    IF depth > 0
    THEN collapse_result(removed_leaf, remove_singleton(node))
    ELSE Removal(node, RemovedLeaf(removed_leaf))

RECURSIVE sub_remove(_, _, _, _)

\* faulty variant: a collapse below is not followed by a look at this node
remove_below_nocascade(node, depth, s, r) ==
    IF r.removed.tag = "Collapse"
    THEN Removal([node EXCEPT ![s] =
                     LeafH(r.removed.reinsert.key, r.removed.reinsert.val)],
                 RemovedLeaf(r.removed.leaf))
    ELSE Removal([node EXCEPT ![s] = NodeH(r.node)], r.removed)

\* faulty variant: the leaf to put back goes to the slot its hash has one
\* level further down
remove_below_deeper(node, depth, s, r) ==
    IF r.removed.tag = "Collapse"
    THEN collapse_branch(
             [[node EXCEPT ![s] = NoneH] EXCEPT
                 ![calculate_slot(hash(r.removed.reinsert.key), depth + 1)] =
                     LeafH(r.removed.reinsert.key, r.removed.reinsert.val)],
             depth, r.removed.leaf)
    ELSE Removal([node EXCEPT ![s] = NodeH(r.node)], r.removed)

\* HandleMut::Node(node) => match node.sub_remove(depth + 1, h, k)?
remove_below(node, depth, s, r) ==
    IF r.removed.tag = "Collapse"
    THEN \* lower level collapsed
         collapse_branch(
             [node EXCEPT ![s] =
                 LeafH(r.removed.reinsert.key, r.removed.reinsert.val)],
             depth, r.removed.leaf)
    ELSE Removal([node EXCEPT ![s] = NodeH(r.node)], r.removed)

\* faulty variant: the leaf of the slot is taken without comparing its key
remove_action_anykey(node, depth, h, k, s, child) ==
    CASE child.type = "None" -> Removal(node, RemovedNone)
      [] child.type = "Leaf" ->
           collapse_branch([node EXCEPT ![s] = NoneH], depth, KV(child))
      [] child.type = "Node" ->
           remove_below(node, depth, s,
                        sub_remove(child.node, depth + 1, h, k))

\* if let HandleOwned::Leaf(l) = slot.replace(HandleOwned::None), else
\* unreachable!(); owned is what the slot held
slot_taken(node, depth, s, owned) ==
    IF owned.type = "Leaf"
    THEN collapse_branch([node EXCEPT ![s] = NoneH], depth, KV(owned))
    ELSE Removal([node EXCEPT ![s] = NoneH], RemovedUnreachable)

\* the match on slot.inner_mut()?
remove_action(node, depth, h, k, s, child) ==
    CASE child.type = "None" -> Removal(node, RemovedNone)
      [] child.type = "Leaf" /\ child.key # k -> Removal(node, RemovedNone)
      [] child.type = "Leaf" /\ child.key = k ->
           slot_taken(node, depth, s, node[s])
      [] child.type = "Node" ->
           remove_below(node, depth, s,
                        sub_remove(child.node, depth + 1, h, k))
      [] child.type = "IoError" -> Removal(node, RemovedErr)

\* HAMT::sub_remove
sub_remove(node, depth, h, k) ==
    remove_action(node, depth, h, k, calculate_slot(h, depth),
                  inner(node[calculate_slot(h, depth)]))

\* the match of HAMT::remove on what sub_remove returned
remove_result(r) ==
    CASE r.removed.tag = "None" -> Result(r.node, NoneOpt, "Ok")
      [] r.removed.tag = "Leaf" ->
           Result(r.node, Some(r.removed.leaf.val), "Ok")
      [] r.removed.tag = "IoError" -> Result(r.node, NoneOpt, "IoError")
      [] r.removed.tag = "Collapse" ->
           \* _ => unreachable!()
           Result(r.node, NoneOpt, "Unreachable")
      [] r.removed.tag \in {"Panic", "Unreachable"} ->
           Result(r.node, NoneOpt, r.removed.tag)

\* HAMT::remove
remove(node, k) == remove_result(sub_remove(node, 0, hash(k), k))

(***************************************************************************)
(* Lookup.  HAMTSearch and the key filter of ValPath::new are the          *)
(* sources'; the branch walker that drives the method follows the written  *)
(* specification: Leaf(slot) ends the branch at that leaf, Path(slot)      *)
(* descends into a node, ends at a leaf, and fails at an empty slot.       *)
(***************************************************************************)
\* From<&O> for HAMTSearch
HAMTSearch(key) == [hash |-> hash(key), key |-> key, depth |-> 0]

\* Handle::leaf(): Some only when the handle is a leaf once faulted in
leaf(h) == IF h.type = "Leaf" THEN Some(KV(h)) ELSE NoneOpt

\* faulty variant: the depth of the search is not advanced
select_match_stuck(self, slot, l) ==
    [self |-> self,
     result |-> IF l.tag = "Some" /\ l.val.key = self.key
                THEN [tag |-> "Leaf", slot |-> slot]
                ELSE [tag |-> "Path", slot |-> slot]]

\* the match of select on the leaf of the slot
select_match(self, slot, l) ==
    [self |-> [self EXCEPT !.depth = self.depth + 1],
     result |-> IF l.tag = "Some" /\ l.val.key = self.key
                THEN [tag |-> "Leaf", slot |-> slot]
                ELSE [tag |-> "Path", slot |-> slot]]

select_at(self, handles, slot) == select_match(self, slot, leaf(handles[slot]))

\* HAMTSearch::select
select(self, handles) ==
    select_at(self, handles, calculate_slot(self.hash, self.depth))

Found(node, l) == [node |-> node, leaf |-> l]

RECURSIVE Branch_new(_, _)

Branch_below(node, s, b) == Found([node EXCEPT ![s] = NodeH(b.node)], b.leaf)

Branch_step(node, r, child) ==
    IF r.result.tag = "Leaf"
    THEN Found([node EXCEPT ![r.result.slot] = child], Some(KV(child)))
    ELSE CASE child.type = "None" -> Found(node, NoneOpt)
           [] child.type = "Leaf" -> Found(node, Some(KV(child)))
           [] child.type = "Node" ->
                Branch_below(node, r.result.slot,
                             Branch_new(child.node, r.self))
           [] child.type = "IoError" -> Found(node, IoErrorOpt)

Branch_select(node, r) == Branch_step(node, r, inner(node[r.result.slot]))

\* Branch::new: the walk of a method from a node down to a leaf
Branch_new(node, method) == Branch_select(node, select(method, node))

\* faulty variant: the branch is kept whatever the key of its leaf
ValPath_filter_any(b, key) ==
    [node |-> b.node, path |-> b.leaf]

\* .filter(|b| b.key() == key)
ValPath_filter(b, key) ==
    [node |-> b.node,
     path |-> CASE b.leaf.tag = "IoError" -> b.leaf
                [] b.leaf.tag = "Some" /\ b.leaf.val.key = key -> b.leaf
                [] OTHER -> NoneOpt]

\* ValPath::new: the branch is kept when its leaf has the key
ValPath_new(node, method, key) == ValPath_filter(Branch_new(node, method), key)

\* Deref for ValPath: the value of the leaf the branch ends at
get_deref(p) ==
    Result(p.node,
           IF p.path.tag = "Some" THEN Some(p.path.val.val) ELSE NoneOpt,
           IF p.path.tag = "IoError" THEN "IoError" ELSE "Ok")

\* Map::get
get(node, k) == get_deref(ValPath_new(node, HAMTSearch(k), k))

(***************************************************************************)
(* Iteration.  First is the sources'; the leaf iterator that drives it is  *)
(* modelled from the written specification: it asks the method for a slot  *)
(* among the handles not yet passed, yields the leaf there or walks the    *)
(* node there first, and goes on behind that slot until the method selects *)
(* nothing.                                                                *)
(***************************************************************************)
\* &children[ofs..]: the handles from slot ofs on, as a slice
children_from(node, ofs) ==
    [i \in 1 .. (N_BUCKETS - ofs) |-> node[ofs + i - 1]]

RECURSIVE First_from(_, _)

\* faulty variant: a node is passed over like an empty slot
First_from_leaves(handles, i) ==
    IF i = Len(handles)
    THEN NoneOpt
    ELSE IF inner(handles[i + 1]).type = "Leaf"
    THEN Some(i)
    ELSE First_from(handles, i + 1)

\* the loop of First::select from index i of the slice on
First_from(handles, i) ==
    IF i = Len(handles)
    THEN NoneOpt
    ELSE IF inner(handles[i + 1]).type \in {"Leaf", "Node"}
    THEN Some(i)
    ELSE First_from(handles, i + 1)

\* faulty variant: the first handle of the slice is not looked at
First_select_behind(handles) ==
    IF Len(handles) = 0 THEN NoneOpt ELSE First_from(handles, 1)

\* First::select
First_select(handles) == First_from(handles, 0)

RECURSIVE LeafIter_from(_, _)

LeafIter_rest(items, rest) ==
    [node |-> rest.node, items |-> items \o rest.items]

LeafIter_after(node, slot, items) ==
    LeafIter_rest(items, LeafIter_from(node, slot + 1))

LeafIter_sub(node, slot, sub) ==
    LeafIter_after([node EXCEPT ![slot] = NodeH(sub.node)], slot, sub.items)

LeafIter_child(node, slot, child) ==
    CASE child.type = "Leaf" ->
           LeafIter_after([node EXCEPT ![slot] = child], slot, << KV(child) >>)
      [] child.type = "Node" ->
           LeafIter_sub(node, slot, LeafIter_from(child.node, 0))

LeafIter_selected(node, ofs, r) ==
    IF r.tag = "None"
    THEN [node |-> node, items |-> << >>]
    ELSE LeafIter_child(node, ofs + r.val, inner(node[ofs + r.val]))

\* LeafIter run to its end: the leaves yielded, the node with all it walked
\* faulted in
LeafIter_from(node, ofs) ==
    LeafIter_selected(node, ofs, First_select(children_from(node, ofs)))

\* ValIter::next over the whole iteration: result.map(KVPair::val)
values_of(it) == [node |-> it.node,
                  items |-> [i \in DOMAIN it.items |-> it.items[i].val]]

\* KeyIter::next over the whole iteration: result.map(KVPair::key)
keys_of(it) == [node |-> it.node,
                items |-> [i \in DOMAIN it.items |-> it.items[i].key]]

\* KeyValIterable::values: ValIter(LeafIter::Initial(self, First))
values(node) == values_of(LeafIter_from(node, 0))

\* KeyValIterable::keys: KeyIter(LeafIter::Initial(self, First))
keys(node) == keys_of(LeafIter_from(node, 0))

(***************************************************************************)
(* The state: one map under insert, remove, get, persist and restore, with *)
(* the pairs it ought to hold beside it, and two further maps that are     *)
(* filled by inserts of distinct keys in any order.                        *)
(***************************************************************************)
VARIABLES
    root,      \* the map (its root node)
    ret,       \* the last operation, its arguments, result and status
    sink,      \* what the last persist of root wrote, <<>> before
    restored,  \* the node restored from sink, if any
    shadow,    \* reference map: the value each key ought to have, 0 if none
    left,      \* a second map, filled by inserts only
    leftSeq,   \* the keys inserted into left, in order
    right,     \* a third map, filled by inserts only
    rightSeq,  \* the keys inserted into right, in order
    arg,       \* the input of a function applied on its own
    out        \* what the function gave for arg

vars == <<root, ret, sink, restored, shadow, left, leftSeq, right, rightSeq,
          down, arg, out>>

\* the pairs under a node, shared subtrees read through the store
RECURSIVE Pairs(_)

PairsUnder(c) ==
    CASE c.type = "None" -> {}
      [] c.type = "Leaf" -> {<<c.key, c.val>>}
      [] c.type = "Node" -> Pairs(c.node)

Pairs(node) == UNION { PairsUnder(stored(node[s])) : s \in Slots }

KeysOf(node) == { p[1] : p \in Pairs(node) }

\* the keys the reference map holds, and what a lookup in it gives
ShadowKeys(sh) == { k \in Keys : sh[k] # 0 }
ShadowGet(sh, k) == IF sh[k] = 0 THEN NoneOpt ELSE Some(sh[k])

\* a map of the model holds at most MaxKeys pairs
Room(ks, k) == k \in ks \/ Cardinality(ks) < MaxKeys

\* the value that goes with a key where pairs are fixed
PairVal(k) == ((k - 1) % NumVals) + 1

Call(op, k, v, r) ==
    [op |-> op, key |-> k, val |-> v, res |-> r.ret, status |-> r.status]

NoCall(op) == Call(op, 0, 0, Result(new, NoneOpt, "Ok"))

\* a process whose stack overflowed, or that panicked, is gone; one that
\* was handed an I/O error goes on
Alive == ret.status \in {"Ok", "IoError"}

\* the reference map of the pairs a tree holds
ShadowOf(node) ==
    [k \in Keys |->
        IF k \in KeysOf(node)
        THEN (CHOOSE p \in Pairs(node) : p[1] = k)[2]
        ELSE 0]

\* the reference map after a call: as the call asked when it returned Ok,
\* as the tree was left when it returned an error
Shadowed(r, sh) ==
    shadow' = IF r.status = "IoError" THEN ShadowOf(r.node) ELSE sh

Returned(op, k, v, r) ==
    /\ root' = r.node
    /\ ret' = Call(op, k, v, r)

\* no function is being applied on its own
NoArg == [op |-> "none"]

Init ==
    /\ root = new
    /\ ret = NoCall("new")
    /\ sink = <<>>
    /\ restored = NoneOpt
    /\ shadow = [k \in Keys |-> 0]
    /\ left = new
    /\ leftSeq = <<>>
    /\ right = new
    /\ rightSeq = <<>>
    /\ down = FALSE
    /\ arg = NoArg
    /\ out = NoArg

Others == <<left, leftSeq, right, rightSeq, arg, out>>

Insert(k, v) ==
    /\ Alive
    /\ Room(ShadowKeys(shadow), k)
    /\ Returned("insert", k, v, insert(root, k, v))
    /\ Shadowed(insert(root, k, v), [shadow EXCEPT ![k] = v])
    /\ sink' = <<>>
    /\ restored' = NoneOpt
    /\ UNCHANGED <<down, Others>>

Remove(k) ==
    /\ Alive
    \* val: the value the key had by the reference map
    /\ Returned("remove", k, shadow[k], remove(root, k))
    /\ Shadowed(remove(root, k), [shadow EXCEPT ![k] = 0])
    /\ sink' = <<>>
    /\ restored' = NoneOpt
    /\ UNCHANGED <<down, Others>>

Get(k) ==
    /\ Alive
    /\ Returned("get", k, 0, get(root, k))
    /\ UNCHANGED <<sink, restored, shadow>>
    /\ UNCHANGED <<down, Others>>

Iterated(op, it) ==
    /\ root' = it.node
    /\ ret' = [op |-> op, key |-> 0, val |-> 0, res |-> it.items,
               status |-> "Ok"]

\* values() collected to its end
Values ==
    /\ Alive
    /\ Iterated("values", values(root))
    /\ UNCHANGED <<sink, restored, shadow>>
    /\ UNCHANGED <<down, Others>>

\* keys() collected to its end
IterKeys ==
    /\ Alive
    /\ Iterated("keys", keys(root))
    /\ UNCHANGED <<sink, restored, shadow>>
    /\ UNCHANGED <<down, Others>>

Persisted(p) ==
    /\ root' = p.node
    /\ sink' = p.bytes

Persist ==
    /\ Alive
    /\ Persisted(persist(root))
    /\ restored' = NoneOpt
    /\ ret' = NoCall("persist")
    /\ UNCHANGED shadow
    /\ UNCHANGED <<down, Others>>

Restore ==
    /\ Alive
    /\ sink # <<>>
    /\ restored' = Some(restore(sink))
    /\ ret' = NoCall("restore")
    /\ UNCHANGED <<root, sink, shadow>>
    /\ UNCHANGED <<down, Others>>

Next ==
    \/ \E k \in Keys, v \in Vals : Insert(k, v)
    \/ \E k \in Keys : Remove(k)
    \/ \E k \in Keys : Get(k)
    \/ Persist
    \/ Restore

Spec == Init /\ [][Next]_vars

(***************************************************************************)
(* Two maps built by inserts of distinct keys, each key with its fixed     *)
(* value, in whatever order.                                               *)
(***************************************************************************)
Main == <<root, sink, restored, shadow, down, arg, out>>

Range(q) == { q[i] : i \in DOMAIN q }

InsertedLeft(k, r) ==
    /\ left' = r.node
    /\ ret' = Call("insert", k, PairVal(k), r)

InsertLeft(k) ==
    /\ Alive
    /\ k \notin Range(leftSeq)
    /\ Len(leftSeq) < MaxKeys
    /\ InsertedLeft(k, insert(left, k, PairVal(k)))
    /\ leftSeq' = Append(leftSeq, k)
    /\ UNCHANGED <<right, rightSeq>>
    /\ UNCHANGED Main

InsertedRight(k, r) ==
    /\ right' = r.node
    /\ ret' = Call("insert", k, PairVal(k), r)

InsertRight(k) ==
    /\ Alive
    /\ k \notin Range(rightSeq)
    /\ Len(rightSeq) < MaxKeys
    /\ InsertedRight(k, insert(right, k, PairVal(k)))
    /\ rightSeq' = Append(rightSeq, k)
    /\ UNCHANGED <<left, leftSeq>>
    /\ UNCHANGED Main

NextOrder ==
    \/ \E k \in Keys : InsertLeft(k)
    \/ \E k \in Keys : InsertRight(k)

SpecOrder == Init /\ [][NextOrder]_vars

(***************************************************************************)
(* One map whose store may fail: between the calls the source goes down,   *)
(* and every fault-in fails until it is back.  Each key has its fixed      *)
(* value.                                                                  *)
(***************************************************************************)
Calls == <<root, ret, sink, restored, shadow>>

\* the source starts failing
Fail ==
    /\ ~ down
    /\ down' = TRUE
    /\ UNCHANGED <<Calls, Others>>

\* the source is back
Recover ==
    /\ down
    /\ down' = FALSE
    /\ UNCHANGED <<Calls, Others>>

NextIo ==
    \/ \E k \in Keys : Insert(k, PairVal(k))
    \/ \E k \in Keys : Remove(k)
    \/ \E k \in Keys : Get(k)
    \/ Persist
    \/ Fail
    \/ Recover

SpecIo == Init /\ [][NextIo]_vars

(***************************************************************************)
(* One map whose keys have their fixed values, under every operation, the  *)
(* two iterations included.                                                *)
(***************************************************************************)
NextTree ==
    \/ \E k \in Keys : Insert(k, PairVal(k))
    \/ \E k \in Keys : Remove(k)
    \/ \E k \in Keys : Get(k)
    \/ Values
    \/ IterKeys
    \/ Persist
    \/ Restore

SpecTree == Init /\ [][NextTree]_vars

(***************************************************************************)
(* Functions applied on their own: calculate_slot to a hash word and a     *)
(* depth, First::select to a slice of handles.  The input is drawn at the  *)
(* start.                                                                  *)
(***************************************************************************)
\* limbs the hash words are made of
LimbSamples == {0, 43981, 65535}

HashWords ==
    { <<a, b, c, d>> : a \in LimbSamples, b \in LimbSamples,
                       c \in LimbSamples, d \in LimbSamples }

\* a node of one leaf, and the handles a slice is made of: none, a leaf,
\* that node, and the shared handle of that node once persisted
SampleNode == [new EXCEPT ![0] = LeafH(2, 1)]

HandleSamples ==
    { NoneH, LeafH(1, 1), NodeH(SampleNode),
      SharedH(Digest(persist(SampleNode).bytes), annotation(SampleNode)) }

Slices == UNION { [1 .. n -> HandleSamples] : n \in 0 .. MaxSlice }

FnArgs ==
    { [op |-> "calculate_slot", h |-> h, depth |-> d] :
         h \in HashWords, d \in 0 .. MaxDepth }
      \cup { [op |-> "First", handles |-> q] : q \in Slices }

InitFn ==
    /\ root = new
    /\ ret = NoCall("new")
    /\ sink = <<>>
    /\ restored = NoneOpt
    /\ shadow = [k \in Keys |-> 0]
    /\ left = new
    /\ leftSeq = <<>>
    /\ right = new
    /\ rightSeq = <<>>
    /\ down = FALSE
    /\ arg \in FnArgs
    /\ out = NoArg

Maps == <<Calls, down, left, leftSeq, right, rightSeq>>

CalculateSlot ==
    /\ arg.op = "calculate_slot"
    /\ out = NoArg
    /\ out' = [op |-> "calculate_slot",
               slot |-> calculate_slot(arg.h, arg.depth),
               shift |-> calculate_slot_shift(
                             calculate_slot_loop(arg.h, arg.depth))]
    /\ UNCHANGED <<Maps, arg>>

FirstSelect ==
    /\ arg.op = "First"
    /\ out = NoArg
    /\ out' = [op |-> "First", sel |-> First_select(arg.handles)]
    /\ UNCHANGED <<Maps, arg>>

NextFn ==
    \/ CalculateSlot
    \/ FirstSelect

SpecFn == InitFn /\ [][NextFn]_vars

(***************************************************************************)
(* What the properties below speak of: the shape of a tree with its shared *)
(* subtrees read in, the leaves holding a key, the non-root nodes, and the *)
(* place where the descent for a key ends.                                 *)
(***************************************************************************)
RECURSIVE Materialised(_)

MaterialisedH(c) ==
    IF c.type = "Node" THEN NodeH(Materialised(c.node)) ELSE c

Materialised(node) == [s \in Slots |-> MaterialisedH(stored(node[s]))]

\* the leaves with key k in a materialised tree
RECURSIVE LeafCountFrom(_, _, _)
LeafCountFrom(node, k, i) ==
    IF i = N_BUCKETS THEN 0
    ELSE LeafCountFrom(node, k, i + 1)
         + (CASE node[i].type = "Leaf" -> IF node[i].key = k THEN 1 ELSE 0
              [] node[i].type = "Node" -> LeafCountFrom(node[i].node, k, 0)
              [] OTHER -> 0)

LeafCount(node, k) == LeafCountFrom(Materialised(node), k, 0)

\* the nodes below the root of a materialised tree
RECURSIVE NodesBelow(_)
NodesBelow(node) ==
    UNION { IF node[s].type = "Node"
            THEN {node[s].node} \cup NodesBelow(node[s].node)
            ELSE {} : s \in Slots }

NonRootNodes(node) == NodesBelow(Materialised(node))

SlotsOfType(node, t) == { s \in Slots : node[s].type = t }

\* where the descent for hash h ends in a materialised tree
RECURSIVE DescentFrom(_, _, _)
DescentFrom(node, h, depth) ==
    IF node[calculate_slot(h, depth)].type = "Node"
    THEN DescentFrom(node[calculate_slot(h, depth)].node, h, depth + 1)
    ELSE [depth |-> depth, handle |-> node[calculate_slot(h, depth)]]

Descent(node, k) == DescentFrom(Materialised(node), hash(k), 0)

\* the tree that inserting the pairs of a reference map, key by key, gives
RECURSIVE BuiltFrom(_, _, _)
BuiltFrom(sh, k, node) ==
    IF k > Cardinality(Keys) THEN node
    ELSE BuiltFrom(sh, k + 1,
                   IF sh[k] = 0 THEN node ELSE insert(node, k, sh[k]).node)

Built(sh) == BuiltFrom(sh, 1, new)

\* the leaves of a materialised tree, slot 0 through 15, depth first
RECURSIVE InOrderFrom(_, _)
InOrderFrom(node, i) ==
    IF i = N_BUCKETS THEN << >>
    ELSE (CASE node[i].type = "Leaf" -> << KV(node[i]) >>
            [] node[i].type = "Node" -> InOrderFrom(node[i].node, 0)
            [] OTHER -> << >>)
         \o InOrderFrom(node, i + 1)

InOrder(node) == InOrderFrom(Materialised(node), 0)

\* every leaf under a node reached by path sits, level by level, in the slot
\* its key hash has at that depth
RECURSIVE PathConsistent(_, _)
PathConsistent(node, path) ==
    \A s \in Slots :
       CASE node[s].type = "Leaf" ->
              \A j \in 1 .. Len(path) + 1 :
                 calculate_slot(hash(node[s].key), j - 1) = Append(path, s)[j]
         [] node[s].type = "Node" ->
              PathConsistent(node[s].node, Append(path, s))
         [] OTHER -> TRUE

\* how often x occurs in a sequence
Count(q, x) == Cardinality({ i \in DOMAIN q : q[i] = x })

(***************************************************************************)
(* C1.  Insert-then-get: after any sequence of inserts of pairwise         *)
(* distinct keys into an empty map that have all returned, get(k) gives    *)
(* Some(v) for every pair (k, v) inserted, whatever splits the later       *)
(* inserts made.                                                           *)
(***************************************************************************)
C1_InsertThenGet ==
    Alive => /\ \A k \in Range(leftSeq) : get(left, k).ret = Some(PairVal(k))
             /\ \A k \in Range(rightSeq) : get(right, k).ret = Some(PairVal(k))

\* three keys are in, the last insert split a leaf two levels down
C1_Witness ==
    /\ Alive
    /\ leftSeq = <<3, 1, 4>>
    /\ rightSeq = <<>>
    /\ ret.op = "insert"
    /\ Descent(left, 4).depth = 2
    /\ get(left, 1).ret = Some(PairVal(1))

(***************************************************************************)
(* C2.  Last write wins: an insert(k, v2) that returns gives None when k   *)
(* was absent and Some(v1) when k was present with v1; afterwards get(k)   *)
(* is Some(v2) and exactly one leaf of the tree has key k.                 *)
(***************************************************************************)
C2_LastWriteWins ==
    [][(ret'.op = "insert" /\ ret'.status = "Ok")
         => /\ ret'.res = ShadowGet(shadow, ret'.key)
            /\ get(root', ret'.key).ret = Some(ret'.val)
            /\ LeafCount(root', ret'.key) = 1]_vars

\* a pair two levels down was replaced and the old value came back
C2_Witness ==
    /\ Alive
    /\ ret.op = "insert"
    /\ ret.res = Some(1)
    /\ ret.val = 2
    /\ Descent(root, ret.key).depth = 2
    /\ get(root, ret.key).ret = Some(2)

(***************************************************************************)
(* C3.  Remove-then-get: remove(k) of a key present with value v returns   *)
(* Some(v), and get(k) is None right after.                                *)
(***************************************************************************)
C3_RemoveThenGet ==
    [][(ret'.op = "remove" /\ Alive /\ shadow[ret'.key] # 0)
         => /\ ret'.status = "Ok"
            /\ ret'.res = Some(shadow[ret'.key])
            /\ get(root', ret'.key).ret = NoneOpt]_vars

\* a present key was removed from below the root, others staying
C3_Witness ==
    /\ Alive
    /\ ret.op = "remove"
    /\ ret.key = 4
    /\ ret.res = Some(2)
    /\ KeysOf(root) = {1, 3}
    /\ get(root, 4).ret = NoneOpt

(***************************************************************************)
(* C4.  Remove of absent: remove(k) of a key that was never inserted, or   *)
(* was removed since, returns None, whether the descent ends at an empty   *)
(* slot, at a leaf with another key, or below the root.                    *)
(***************************************************************************)
C4_RemoveAbsent ==
    [][(ret'.op = "remove" /\ Alive /\ shadow[ret'.key] = 0)
         => /\ ret'.status = "Ok"
            /\ ret'.res = NoneOpt]_vars

\* the absent key's descent ended at a leaf with another key, below the root
C4_Witness ==
    /\ Alive
    /\ ret.op = "remove"
    /\ ret.res = NoneOpt
    /\ shadow[ret.key] = 0
    /\ Descent(root, ret.key).depth > 0
    /\ Descent(root, ret.key).handle.type = "Leaf"

(***************************************************************************)
(* C5.  No singleton: after any inserts and removes that returned, every   *)
(* node below the root has two or more occupied slots or a node slot, so   *)
(* none has exactly one leaf and no node.                                  *)
(***************************************************************************)
C5_NoSingleton ==
    Alive =>
      \A n \in NonRootNodes(root) :
         /\ \/ Cardinality(Slots \ SlotsOfType(n, "None")) >= 2
            \/ SlotsOfType(n, "Node") # {}
         /\ ~ (/\ Cardinality(SlotsOfType(n, "Leaf")) = 1
               /\ SlotsOfType(n, "Node") = {})

\* a remove left a node below the root with a node as its only child
C5_Witness ==
    /\ Alive
    /\ ret.op = "remove"
    /\ ret.res.tag = "Some"
    /\ \E n \in NonRootNodes(root) :
          /\ SlotsOfType(n, "Leaf") = {}
          /\ Cardinality(SlotsOfType(n, "Node")) = 1

(***************************************************************************)
(* C6.  Shape canonicity: two maps built by inserting the same pairs with  *)
(* distinct keys, in whatever two orders, have the same occupancy and the  *)
(* same leaves slot for slot at every depth, and so the same content       *)
(* digest once persisted.                                                  *)
(***************************************************************************)
C6_ShapeCanonicity ==
    (Alive /\ Range(leftSeq) = Range(rightSeq))
      => /\ \A s \in Slots : left[s] = right[s]
         /\ Digest(persist(left).bytes) = Digest(persist(right).bytes)

\* the same three keys went into both maps, in different orders
C6_Witness ==
    /\ Alive
    /\ leftSeq = <<1, 3, 4>>
    /\ rightSeq = <<4, 3, 1>>
    /\ Descent(left, 3).depth = 1
    /\ Descent(right, 4).depth = 2

(***************************************************************************)
(* C7.  History independence: after any inserts and removes that returned, *)
(* the tree has exactly the shape that inserting the surviving pairs into  *)
(* an empty map gives; with one key left, every node below the root is     *)
(* gone and the key sits in a leaf of the root.                            *)
(***************************************************************************)
C7_HistoryIndependence ==
    Alive =>
      /\ Materialised(root) = Built(shadow)
      /\ Cardinality(ShadowKeys(shadow)) = 1
           => /\ NonRootNodes(root) = {}
              /\ Cardinality(SlotsOfType(root, "Leaf")) = 1

\* key 4, two levels down beside key 1, was removed and key 1 alone is left
C7_Witness ==
    /\ Alive
    /\ ret.op = "remove"
    /\ ret.key = 4
    /\ ret.res.tag = "Some"
    /\ ShadowKeys(shadow) = {1}
    /\ root[calculate_slot(hash(1), 0)].type = "Leaf"

(***************************************************************************)
(* C8.  Full hash collisions: inserting a key whose 64 bit hash equals     *)
(* that of another key already in the map returns, and both keys can be    *)
(* looked up afterwards.                                                   *)
(***************************************************************************)
C8_CollisionTolerated ==
    \A j \in Keys :
       (/\ ret.op = "insert"
        /\ j # ret.key
        /\ hash(j) = hash(ret.key)
        /\ shadow[j] # 0)
         => /\ ret.status = "Ok"
            /\ get(root, ret.key).ret = Some(ret.val)
            /\ get(root, j).ret = Some(shadow[j])

(***************************************************************************)
(* C9.  Round trip: the node restored from what persist of the root wrote  *)
(* answers every get, of a present or an absent key, as the root does.     *)
(***************************************************************************)
C9_RoundTrip ==
    (Alive /\ restored.tag = "Some")
      => \A k \in Keys : get(restored.val, k).ret = get(root, k).ret

\* a tree with a node below the root was persisted and restored
C9_Witness ==
    /\ Alive
    /\ restored.tag = "Some"
    /\ ShadowKeys(shadow) = {1, 2, 4}
    /\ SlotsOfType(restored.val, "Shared") # {}
    /\ get(restored.val, 4).ret = Some(shadow[4])
    /\ get(restored.val, 3).ret = NoneOpt

(***************************************************************************)
(* C10.  Cardinality: after any inserts and removes that returned, the     *)
(* annotation of the root is the number of keys present, None for an empty *)
(* map; replacing the value of a present key leaves it as it was.          *)
(***************************************************************************)
C10_Cardinality ==
    Alive =>
      annotation(root) =
        IF ShadowKeys(shadow) = {} THEN NoneOpt
        ELSE Some(Cardinality(ShadowKeys(shadow)))

\* a value was replaced in a map of three keys, two of them below the root
C10_Witness ==
    /\ Alive
    /\ ret.op = "insert"
    /\ ret.res.tag = "Some"
    /\ ShadowKeys(shadow) = {1, 2, 3}
    /\ annotation(root) = Some(3)

(***************************************************************************)
(* C11.  Iteration coverage: values() run to its end yields the value of   *)
(* every present leaf exactly once, keys() every present key exactly once, *)
(* both in the order of slots 0 through 15, depth first.                   *)
(***************************************************************************)
C11_IterationCoverage ==
    /\ ret.op = "values" =>
         /\ Len(ret.res) = Cardinality(ShadowKeys(shadow))
         /\ \A v \in Vals :
               Count(ret.res, v) = Cardinality({ k \in Keys : shadow[k] = v })
         /\ ret.res = [i \in DOMAIN InOrder(root) |-> InOrder(root)[i].val]
    /\ ret.op = "keys" =>
         /\ Len(ret.res) = Cardinality(ShadowKeys(shadow))
         /\ Range(ret.res) = ShadowKeys(shadow)
         /\ ret.res = [i \in DOMAIN InOrder(root) |-> InOrder(root)[i].key]

\* three values were yielded, two of them equal, two from two levels down
C11_Witness ==
    /\ ret.op = "values"
    /\ Len(ret.res) = 3
    /\ ShadowKeys(shadow) = {1, 3, 4}
    /\ shadow[1] = shadow[3]
    /\ Descent(root, 4).depth = 2

C13_FailedInsertKeepsLeaf ==
    [][(ret'.op = "insert" /\ ret'.status = "IoError")
         => /\ Descent(root', ret'.key) = Descent(root, ret'.key)
            /\ Pairs(root') = Pairs(root)
            /\ Materialised(root') = Materialised(root)]_vars

\* the failed insert was on its way to a leaf with another key, two levels
\* down, which is where it was
C13_Witness ==
    /\ ret.op = "insert"
    /\ ret.status = "IoError"
    /\ Descent(root, ret.key).depth = 2
    /\ Descent(root, ret.key).handle.type = "Leaf"
    /\ Descent(root, ret.key).handle.key # ret.key

(***************************************************************************)
(* C14.  The branches marked unreachable are not taken: on every tree      *)
(* reached by insert and remove, for every key, sub_remove at depth 0      *)
(* gives no Collapse, the slot sub_remove empties held a leaf, and         *)
(* into_leaf meets leaf handles only, in remove and in insert alike.       *)
(***************************************************************************)
C14_UnreachableNotTaken ==
    Alive =>
      /\ ret.status \notin {"Unreachable", "Panic"}
      /\ \A k \in Keys :
            /\ sub_remove(root, 0, hash(k), k).removed.tag \in {"None", "Leaf"}
            /\ remove(root, k).status = "Ok"
            /\ insert(root, k, 1).status \in {"Ok", "StackOverflow"}

\* a remove two levels down collapsed both levels and ended at the root
C14_Witness ==
    /\ Alive
    /\ ret.op = "remove"
    /\ ret.key = 1
    /\ ret.res.tag = "Some"
    /\ ShadowKeys(shadow) = {2, 4}
    /\ root[calculate_slot(hash(4), 0)].type = "Leaf"
    /\ NonRootNodes(root) = {}

(***************************************************************************)
(* C15.  Path consistency: after any inserts and removes, a leaf with key  *)
(* k in a node at depth d is in slot slot(hash(k), d) of it, and each of   *)
(* its ancestors is the node in slot slot(hash(k), j) of the ancestor at   *)
(* depth j; so for the leaf a split displaced and for the leaf a collapse  *)
(* lifted into the slot of its parent.                                     *)
(***************************************************************************)
C15_PathConsistency ==
    Alive => PathConsistent(Materialised(root), << >>)

\* the collapse of a node two levels down lifted key 1 into the slot of the
\* node, beside key 3
C15_Witness ==
    /\ Alive
    /\ ret.op = "remove"
    /\ ret.key = 4
    /\ ret.res.tag = "Some"
    /\ ShadowKeys(shadow) = {1, 3}
    /\ Descent(root, 1).depth = 1
    /\ Descent(root, 1).handle.type = "Leaf"
    /\ Descent(root, 1).handle.key = 1

(***************************************************************************)
(* C16.  Frame: an insert or a remove of key k leaves what get gives for   *)
(* every other key as it was, splits and collapses included; and a remove  *)
(* that returns None leaves every node of the tree as it was, slot for     *)
(* slot.                                                                   *)
(***************************************************************************)
C16_Frame ==
    [][(ret'.op \in {"insert", "remove"} /\ ret'.status = "Ok")
         => /\ \A k \in Keys \ {ret'.key} :
                 get(root', k).ret = get(root, k).ret
            /\ (ret'.op = "remove" /\ ret'.res = NoneOpt)
                 => Materialised(root') = Materialised(root)]_vars

\* key 4 went in beside keys 1 and 3, splitting the leaf of key 1 one level
\* down; both are found as before
C16_Witness ==
    /\ Alive
    /\ ret.op = "insert"
    /\ ret.key = 4
    /\ ret.res = NoneOpt
    /\ ShadowKeys(shadow) = {1, 3, 4}
    /\ Descent(root, 1).depth = 2
    /\ get(root, 1).ret = Some(shadow[1])
    /\ get(root, 3).ret = Some(shadow[3])

\* what one call of select gives on node n for key k at depth d
SelectOk(n, k, d, r) ==
    /\ r.self.depth = d + 1
    /\ r.self.hash = hash(k)
    /\ r.self.key = k
    /\ r.result.slot = calculate_slot(hash(k), d)
    /\ r.result.tag \in {"Leaf", "Path"}
    /\ r.result.tag = "Leaf"
         <=> (n[r.result.slot].type = "Leaf" /\ n[r.result.slot].key = k)

(***************************************************************************)
(* C17.  Lookup of an absent key: get(k) gives None for every key that is  *)
(* not present, where the descent ends at an empty slot and where it ends  *)
(* at a leaf with another key; select answers Leaf(slot) only when the     *)
(* leaf of the slot has the key searched for, Path(slot) otherwise, for    *)
(* the slot of the hash at its depth, and advances its depth by one.       *)
(***************************************************************************)
C17_AbsentLookup ==
    Alive =>
      /\ \A k \in Keys : shadow[k] = 0 => get(root, k).ret = NoneOpt
      /\ \A n \in {root, Materialised(root)} \cup NonRootNodes(root) :
            \A k \in Keys, d \in 0 .. StackLimit :
               SelectOk(n, k, d,
                            select([HAMTSearch(k) EXCEPT !.depth = d], n))

\* the descent for an absent key ended at the leaf of another key, one
\* level down, and get gave None
C17_Witness ==
    /\ Alive
    /\ ret.op = "get"
    /\ ret.res = NoneOpt
    /\ shadow[ret.key] = 0
    /\ Descent(root, ret.key).depth = 1
    /\ Descent(root, ret.key).handle.type = "Leaf"
    /\ Descent(root, ret.key).handle.key # ret.key

\* the number of occupied slots of a node before slot i
Rank(n, i) == Cardinality({ j \in Slots : j < i /\ n[j].type # "None" })

\* what persist of node n wrote, b, against n, the node n2 it left and the
\* node r restored from b; the handle of slot i starts at Rank(n, i) * 3 + 2
PresenceOk(n, b, n2, r) ==
    /\ b[1].u16 \in 0 .. (2 ^ N_BUCKETS - 1)
    /\ \A i \in Slots : ((b[1].u16 \div 2 ^ i) % 2 = 1) <=> n[i].type # "None"
    /\ Len(b) = 1 + 3 * Cardinality(Slots \ SlotsOfType(n, "None"))
    /\ \A i \in Slots :
          CASE n[i].type = "None" -> n2[i] = NoneH /\ r[i] = NoneH
            [] n[i].type = "Leaf" ->
                 /\ b[Rank(n, i) * 3 + 2] = [u8 |-> 1]
                 /\ b[Rank(n, i) * 3 + 3] = [key |-> n[i].key]
                 /\ b[Rank(n, i) * 3 + 4] = [val |-> n[i].val]
                 /\ n2[i] = n[i]
                 /\ r[i] = n[i]
            [] n[i].type = "Shared" ->
                 /\ b[Rank(n, i) * 3 + 2] = [u8 |-> 2]
                 /\ b[Rank(n, i) * 3 + 3] = [digest |-> n[i].digest]
                 /\ n2[i] = n[i]
                 /\ r[i] = n[i]
            [] n[i].type = "Node" ->
                 /\ b[Rank(n, i) * 3 + 2] = [u8 |-> 2]
                 /\ b[Rank(n, i) * 3 + 3] =
                      [digest |-> Digest(persist(n[i].node).bytes)]
                 /\ n2[i].type = "Shared"
                 /\ r[i] = n2[i]

(***************************************************************************)
(* C18.  Presence mask: persist of a node writes a 16 bit mask with bit i  *)
(* set exactly when slot i is not None, a shared slot counting as present  *)
(* and staying shared, and then the present handles and no others in the   *)
(* order of their slots; restore reads the mask and puts one handle per    *)
(* set bit, in that order, into the slot of the bit, leaving the slots of  *)
(* clear bits None.                                                        *)
(***************************************************************************)
C18_PresenceMask ==
    Alive =>
      /\ PresenceOk(root, persist(root).bytes, persist(root).node,
                    restore(persist(root).bytes))
      /\ ret.op = "persist" => sink = persist(root).bytes
      /\ restored.tag = "Some" => restored.val = restore(sink)

\* a root with a node in slot 7 and a leaf in slot 8 was persisted and
\* restored: bits 7 and 8 of the mask are set, fourteen slots are None
C18_Witness ==
    /\ Alive
    /\ ret.op = "restore"
    /\ restored.tag = "Some"
    /\ SlotsOfType(restored.val, "Leaf") # {}
    /\ SlotsOfType(restored.val, "Shared") # {}
    /\ Cardinality(SlotsOfType(restored.val, "None")) = N_BUCKETS - 2
    /\ sink[1].u16 = 2 ^ 7 + 2 ^ 8

(***************************************************************************)
(* C19.  First::select gives the lowest index of the slice whose handle is *)
(* a leaf or a node, and gives None exactly when every handle of the slice *)
(* is None: no None slot is selected and no leaf or node before the one    *)
(* selected is passed over.                                                *)
(***************************************************************************)
C19_FirstSelect ==
    out.op = "First" =>
      /\ out.sel.tag \in {"None", "Some"}
      /\ out.sel.tag = "Some" =>
           /\ out.sel.val \in 0 .. (Len(arg.handles) - 1)
           /\ stored(arg.handles[out.sel.val + 1]).type \in {"Leaf", "Node"}
           /\ \A j \in 1 .. out.sel.val : arg.handles[j].type = "None"
      /\ out.sel.tag = "None" <=>
           \A j \in 1 .. Len(arg.handles) : arg.handles[j].type = "None"

\* behind two empty handles a node was selected, a leaf behind it was not
C19_Witness ==
    /\ out.op = "First"
    /\ Len(arg.handles) = 4
    /\ arg.handles[1].type = "None"
    /\ arg.handles[2].type = "None"
    /\ arg.handles[3].type = "Node"
    /\ arg.handles[4].type = "Leaf"
    /\ out.sel = Some(2)

\* bits 4 * d to 4 * d + 3 of a 64 bit word, d below 16
Nibble(h, d) == (h[(d \div 4) + 1] \div (16 ^ (d % 4))) % 16

(***************************************************************************)
(* C20.  calculate_slot(h, depth) ends for every hash word and depth with  *)
(* a slot in 0..15, shifts by less than 64 bits, is bits 4 * depth to      *)
(* 4 * depth + 3 of h for a depth below 16, and is                         *)
(* calculate_slot(hash(h), depth - 16) from depth 16 on.                   *)
(***************************************************************************)
C20_CalculateSlot ==
    out.op = "calculate_slot" =>
      /\ out.slot \in 0 .. 15
      /\ out.shift \in 0 .. 63
      /\ arg.depth < 16 => out.slot = Nibble(arg.h, arg.depth)
      /\ arg.depth >= 16 =>
           out.slot = calculate_slot(hashWord(arg.h), arg.depth - 16)

\* at depth 32 the hash was renewed twice and nothing was shifted
C20_Witness ==
    /\ out.op = "calculate_slot"
    /\ arg.depth = 32
    /\ arg.h = <<43981, 0, 65535, 43981>>
    /\ out.shift = 0
    /\ out.slot = Nibble(hashWord(hashWord(arg.h)), 0)

====
